---- MODULE Spec2Model ----
(***************************************************************************)
(* Model of TournamentManager (deepseek_python_20250507_6fe514.py): the    *)
(* roster, the groups, the round-robin match tables, the group standings,  *)
(* the playoff bracket with its placeholder propagation, and the final     *)
(* standings.  Tables (pandas DataFrames) are sequences of records; a      *)
(* missing score (None / NaN) is the value NA.                             *)
(***************************************************************************)
EXTENDS Integers, Sequences, FiniteSets, TLC

VARIABLES teams, groups, matches, matches_keys, playoffs, final_standings,
          op, arg, updates

vars == <<teams, groups, matches, matches_keys, playoffs, final_standings,
          op, arg, updates>>

(***************************************************************************)
(* Bounds of the model.                                                    *)
(***************************************************************************)
MaxTeams == 2          \* roster size explored from construction
MaxGroups == 3         \* num_groups argument of create_groups
MaxPerGroup == 3       \* teams_per_group argument of create_groups
MaxAdvancing == 2      \* teams_advancing argument of generate_playoffs
MaxRoster == 3         \* group studies: registered teams
MaxBracketTeams == 8   \* bracket study: registered teams
MaxEdits == 2          \* result-entry calls before update_match_results stops
MaxUpdates == 2        \* result-entry calls before update_playoff_results stops

(***************************************************************************)
(* Program constants.                                                      *)
(***************************************************************************)
points_win == 3
points_loss == 0
points_tiebreak == 1

NA == -1               \* None / NaN in a score column

isna(x) == x = NA

Min(a, b) == IF a < b THEN a ELSE b

\* chr(65 + i) for i = 0, 1, ...
GroupNames == <<"A", "B", "C", "D", "E", "F">>

TeamName(i) == "T" \o ToString(i)

\* f-strings "QF{k} Winner", "SF{k} Winner", "SF{k} Loser"
Placeholder(phase, k, what) == phase \o ToString(k) \o " " \o what

\* keys of a dict keyed by group label, in insertion order (create_groups
\* inserts the labels in alphabetical order)
Keys(d) == SelectSeq(GroupNames, LAMBDA g : g \in DOMAIN d)

EmptyDict == [g \in {} |-> <<>>]

Names(t) == {t[i] : i \in 1..Len(t)}

(***************************************************************************)
(* add_team                                                                *)
(***************************************************************************)
add_team_result(roster, name) == name \notin Names(roster)

\* add_team that appends without the membership test
add_team_roster_unchecked(roster, name) == Append(roster, name)

add_team_roster(roster, name) ==
    IF name \in Names(roster) THEN roster ELSE Append(roster, name)

(***************************************************************************)
(* create_groups: team_names is the shuffled roster.                       *)
(***************************************************************************)
\* create_groups_op whose slices run one team into the next group
create_groups_overlap(team_names, num_groups, teams_per_group) ==
    LET created == {i \in 0..(num_groups - 1) :
                        i * teams_per_group < Len(team_names)}
        idx(g) == CHOOSE i \in created : GroupNames[i + 1] = g
    IN  [g \in {GroupNames[i + 1] : i \in created} |->
            SubSeq(team_names,
                   idx(g) * teams_per_group + 1,
                   Min(idx(g) * teams_per_group + teams_per_group + 1,
                       Len(team_names)))]

create_groups_op(team_names, num_groups, teams_per_group) ==
    LET created == {i \in 0..(num_groups - 1) :
                        i * teams_per_group < Len(team_names)}
        idx(g) == CHOOSE i \in created : GroupNames[i + 1] = g
    IN  [g \in {GroupNames[i + 1] : i \in created} |->
            SubSeq(team_names,
                   idx(g) * teams_per_group + 1,
                   Min(idx(g) * teams_per_group + teams_per_group,
                       Len(team_names)))]

\* np.random.shuffle: any reordering of the list
Shuffles(roster) ==
    {[i \in 1..Len(roster) |-> roster[p[i]]] : p \in Permutations(1..Len(roster))}

(***************************************************************************)
(* generate_matches                                                        *)
(***************************************************************************)
NewMatch(t1, t2) ==
    [Squadra1 |-> t1, Squadra2 |-> t2, Set1 |-> NA, Set2 |-> NA,
     Vincitore |-> ""]

\* RoundRobin whose inner loop starts at i instead of i + 1
RECURSIVE RoundRobinSelf(_, _, _)
RoundRobinSelf(tms, i, j) ==
    IF i > Len(tms) THEN <<>>
    ELSE IF j > Len(tms) THEN RoundRobinSelf(tms, i + 1, i + 1)
    ELSE <<NewMatch(tms[i], tms[j])>> \o RoundRobinSelf(tms, i, j + 1)

RECURSIVE RoundRobin(_, _, _)
RoundRobin(tms, i, j) ==
    IF i > Len(tms) THEN <<>>
    ELSE IF j > Len(tms) THEN RoundRobin(tms, i + 1, i + 2)
    ELSE <<NewMatch(tms[i], tms[j])>> \o RoundRobin(tms, i, j + 1)

generate_matches_op(grps) ==
    [g \in DOMAIN grps |-> RoundRobin(grps[g], 1, 2)]

(***************************************************************************)
(* update_match_results: the winner column is recomputed from the scores.  *)
(***************************************************************************)
\* MatchWinner that leaves the winner of a level match empty
MatchWinnerNoDraw(row) ==
    IF isna(row.Set1) \/ isna(row.Set2) THEN ""
    ELSE IF row.Set1 > row.Set2 THEN row.Squadra1
    ELSE IF row.Set2 > row.Set1 THEN row.Squadra2
    ELSE ""

MatchWinner(row) ==
    IF isna(row.Set1) \/ isna(row.Set2) THEN ""
    ELSE IF row.Set1 > row.Set2 THEN row.Squadra1
    ELSE IF row.Set2 > row.Set1 THEN row.Squadra2
    ELSE "Draw"

update_match_results_op(updated_df) ==
    [i \in 1..Len(updated_df) |->
        [updated_df[i] EXCEPT !.Vincitore = MatchWinner(updated_df[i])]]

(***************************************************************************)
(* calculate_group_standings                                               *)
(***************************************************************************)
NewStanding(t) ==
    [Team |-> t, MatchesPlayed |-> 0, Wins |-> 0, Losses |-> 0,
     SetsWon |-> 0, SetsLost |-> 0, Points |-> 0]

\* standings[standings["Team"] == team].index[0]
TeamIdx(standings, team) ==
    CHOOSE i \in 1..Len(standings) :
        /\ standings[i].Team = team
        /\ \A j \in 1..(i - 1) : standings[j].Team # team

\* LoserPoints without the test that the winner has 3 sets
LoserPointsAnyMargin(ws, ls) ==
    IF ls = ws - 1 THEN points_tiebreak ELSE points_loss

\* points awarded to the loser of a decisive match won ws : ls
LoserPoints(ws, ls) ==
    IF ls = ws - 1 /\ ws = 3 THEN points_tiebreak ELSE points_loss

\* ProcessMatch that passes over a level match before counting it
ProcessMatchSkipsLevel(standings, match) ==
    IF isna(match.Set1) \/ isna(match.Set2) \/ match.Set1 = match.Set2
    THEN standings
    ELSE
    LET i1 == TeamIdx(standings, match.Squadra1)
        i2 == TeamIdx(standings, match.Squadra2)
        s1 == match.Set1
        s2 == match.Set2
        a == [standings EXCEPT
                ![i1].MatchesPlayed = @ + 1,
                ![i1].SetsWon = @ + s1,
                ![i1].SetsLost = @ + s2]
        b == [a EXCEPT
                ![i2].MatchesPlayed = @ + 1,
                ![i2].SetsWon = @ + s2,
                ![i2].SetsLost = @ + s1]
    IN  IF s1 > s2 THEN
            LET c == [b EXCEPT ![i1].Wins = @ + 1, ![i1].Points = @ + points_win]
            IN  [c EXCEPT ![i2].Losses = @ + 1,
                          ![i2].Points = @ + LoserPoints(s1, s2)]
        ELSE
            LET c == [b EXCEPT ![i2].Wins = @ + 1, ![i2].Points = @ + points_win]
            IN  [c EXCEPT ![i1].Losses = @ + 1,
                          ![i1].Points = @ + LoserPoints(s2, s1)]

ProcessMatch(standings, match) ==
    IF isna(match.Set1) \/ isna(match.Set2) THEN standings
    ELSE
    LET i1 == TeamIdx(standings, match.Squadra1)
        i2 == TeamIdx(standings, match.Squadra2)
        s1 == match.Set1
        s2 == match.Set2
        a == [standings EXCEPT
                ![i1].MatchesPlayed = @ + 1,
                ![i1].SetsWon = @ + s1,
                ![i1].SetsLost = @ + s2]
        b == [a EXCEPT
                ![i2].MatchesPlayed = @ + 1,
                ![i2].SetsWon = @ + s2,
                ![i2].SetsLost = @ + s1]
    IN  IF s1 > s2 THEN
            LET c == [b EXCEPT ![i1].Wins = @ + 1, ![i1].Points = @ + points_win]
            IN  [c EXCEPT ![i2].Losses = @ + 1,
                          ![i2].Points = @ + LoserPoints(s1, s2)]
        ELSE IF s2 > s1 THEN
            LET c == [b EXCEPT ![i2].Wins = @ + 1, ![i2].Points = @ + points_win]
            IN  [c EXCEPT ![i1].Losses = @ + 1,
                          ![i1].Points = @ + LoserPoints(s2, s1)]
        ELSE b

RECURSIVE ProcessMatches(_, _, _)
ProcessMatches(standings, matches_df, k) ==
    IF k > Len(matches_df) THEN standings
    ELSE ProcessMatches(ProcessMatch(standings, matches_df[k]), matches_df, k + 1)

SetDifference(r) == r.SetsWon - r.SetsLost

\* RanksAbove without the third sort key
RanksAboveTwoKeys(r, s) ==
    \/ r.Points > s.Points
    \/ r.Points = s.Points /\ SetDifference(r) > SetDifference(s)

\* r sorts strictly before s under
\* sort_values(by=["Points", "Set Difference", "Sets Won"], ascending=False)
RanksAbove(r, s) ==
    \/ r.Points > s.Points
    \/ r.Points = s.Points /\ SetDifference(r) > SetDifference(s)
    \/ r.Points = s.Points /\ SetDifference(r) = SetDifference(s)
         /\ r.SetsWon > s.SetsWon

\* the multi-key sort is a lexsort, which is stable: rows with equal keys keep
\* their input order
RECURSIVE InsertRow(_, _)
InsertRow(sorted, r) ==
    IF sorted = <<>> THEN <<r>>
    ELSE IF RanksAbove(r, Head(sorted)) THEN <<r>> \o sorted
    ELSE <<Head(sorted)>> \o InsertRow(Tail(sorted), r)

RECURSIVE sort_values(_, _)
sort_values(standings, k) ==
    IF k = 0 THEN <<>>
    ELSE InsertRow(sort_values(standings, k - 1), standings[k])

\* self.groups[group] raises KeyError for a label that has a match table and
\* is not a group
calculate_group_standings_KeyError(mts, grps, group) ==
    group \in DOMAIN mts /\ group \notin DOMAIN grps

calculate_group_standings(mts, grps, group) ==
    IF group \notin DOMAIN mts THEN <<>>
    ELSE LET tms == grps[group]
             init == [i \in 1..Len(tms) |-> NewStanding(tms[i])]
             done == ProcessMatches(init, mts[group], 1)
         IN  sort_values(done, Len(done))
(***************************************************************************)
(* check_groups_complete / check_playoffs_complete                         *)
(***************************************************************************)
\* The table of a group with a single team is pd.DataFrame([]): it has no
\* columns, and matches_df["Set Squadra 1"] raises KeyError.  The outcome is
\* "True", "False" or "KeyError".
RECURSIVE GroupsComplete(_, _)
GroupsComplete(mts, keys) ==
    IF keys = <<>> THEN "True"
    ELSE LET matches_df == mts[Head(keys)]
         IN  IF matches_df = <<>> THEN "KeyError"
             ELSE IF \/ \E i \in 1..Len(matches_df) : isna(matches_df[i].Set1)
                     \/ \E i \in 1..Len(matches_df) : isna(matches_df[i].Set2)
                  THEN "False"
                  ELSE GroupsComplete(mts, Tail(keys))

\* keys: the labels of self.matches in insertion order, the order in which
\* self.matches.items() yields them
check_groups_complete(mts, keys) ==
    IF DOMAIN mts = {} THEN "False" ELSE GroupsComplete(mts, keys)

\* check_playoffs_complete that looks at the first score column only
check_playoffs_complete_one_column(po) ==
    IF po = <<>> THEN FALSE
    ELSE ~ (\E i \in 1..Len(po) : isna(po[i].Set1))

check_playoffs_complete(po) ==
    IF po = <<>> THEN FALSE
    ELSE ~ ((\E i \in 1..Len(po) : isna(po[i].Set1))
            \/ (\E i \in 1..Len(po) : isna(po[i].Set2)))

(***************************************************************************)
(* generate_playoffs                                                       *)
(***************************************************************************)
NewPhase(fase, t1, t2) ==
    [Fase |-> fase, Squadra1 |-> t1, Squadra2 |-> t2, Set1 |-> NA,
     Set2 |-> NA, Vincitore |-> ""]

\* standings["Team"].head(teams_advancing)
Head_n(standings, n) ==
    [i \in 1..Min(n, Len(standings)) |-> standings[i].Team]

RECURSIVE Qualified(_, _, _, _)
Qualified(mts, grps, keys, teams_advancing) ==
    IF keys = <<>> THEN <<>>
    ELSE Head_n(calculate_group_standings(mts, grps, Head(keys)), teams_advancing)
         \o Qualified(mts, grps, Tail(keys), teams_advancing)

qualified_teams(mts, grps, teams_advancing) ==
    Qualified(mts, grps, Keys(grps), teams_advancing)

\* FirstRound that pairs neighbours of the qualified list
RECURSIVE FirstRoundAdjacent(_, _, _, _)
FirstRoundAdjacent(fase, q, i, rounds) ==
    IF i >= rounds THEN <<>>
    ELSE <<NewPhase(fase, q[2 * i + 1], q[2 * i + 2])>>
         \o FirstRoundAdjacent(fase, q, i + 1, rounds)

\* first round: team i against team total_teams - 1 - i, i = 0 .. rounds - 1
RECURSIVE FirstRound(_, _, _, _)
FirstRound(fase, q, i, rounds) ==
    IF i >= rounds THEN <<>>
    ELSE (IF i < Len(q) /\ Len(q) - 1 - i < Len(q)
          THEN <<NewPhase(fase, q[i + 1], q[Len(q) - i])>>
          ELSE <<>>)
         \o FirstRound(fase, q, i + 1, rounds)

FinalsAndThird ==
    << NewPhase("Finals", "SF1 Winner", "SF2 Winner"),
       NewPhase("Third Place", "SF1 Loser", "SF2 Loser") >>

\* Bracket that needs more than 8 teams for the Quarterfinals
BracketAboveEight(q) ==
    IF Len(q) > 8 THEN
        FirstRound("Quarterfinals", q, 0, 4)
        \o << NewPhase("Semifinals", "QF1 Winner", "QF2 Winner"),
              NewPhase("Semifinals", "QF3 Winner", "QF4 Winner") >>
        \o FinalsAndThird
    ELSE IF Len(q) >= 4 THEN
        FirstRound("Semifinals", q, 0, 2) \o FinalsAndThird
    ELSE IF Len(q) >= 2 THEN
        << NewPhase("Finals", q[1], q[2]) >>
    ELSE <<>>

\* Bracket that starts at the Semifinals from three qualified teams on
BracketFromThree(q) ==
    IF Len(q) >= 8 THEN
        FirstRound("Quarterfinals", q, 0, 4)
        \o << NewPhase("Semifinals", "QF1 Winner", "QF2 Winner"),
              NewPhase("Semifinals", "QF3 Winner", "QF4 Winner") >>
        \o FinalsAndThird
    ELSE IF Len(q) >= 3 THEN
        FirstRound("Semifinals", q, 0, 2) \o FinalsAndThird
    ELSE IF Len(q) >= 2 THEN
        << NewPhase("Finals", q[1], q[2]) >>
    ELSE <<>>

Bracket(q) ==
    IF Len(q) >= 8 THEN
        FirstRound("Quarterfinals", q, 0, 4)
        \o << NewPhase("Semifinals", "QF1 Winner", "QF2 Winner"),
              NewPhase("Semifinals", "QF3 Winner", "QF4 Winner") >>
        \o FinalsAndThird
    ELSE IF Len(q) >= 4 THEN
        FirstRound("Semifinals", q, 0, 2) \o FinalsAndThird
    ELSE IF Len(q) >= 2 THEN
        << NewPhase("Finals", q[1], q[2]) >>
    ELSE <<>>

generate_playoffs_op(mts, grps, teams_advancing) ==
    Bracket(qualified_teams(mts, grps, teams_advancing))

(***************************************************************************)
(* update_playoff_results.  The outer loop is iterrows() over the table    *)
(* that the body modifies: when the table is one block of object columns   *)
(* the rows are views and a row already rewritten by an earlier iteration  *)
(* is read as rewritten (live); when the score columns are numeric the     *)
(* rows are read from a copy made before the loop (not live).              *)
(***************************************************************************)
\* Substitute that always writes the first side of the matching row
SubstituteFirstSide(po, fase, placeholder, name) ==
    [i \in 1..Len(po) |->
        IF po[i].Fase = fase /\ placeholder \in {po[i].Squadra1, po[i].Squadra2}
        THEN [po[i] EXCEPT !.Squadra1 = name]
        ELSE po[i]]

Substitute(po, fase, placeholder, name) ==
    [i \in 1..Len(po) |->
        IF po[i].Fase = fase /\ placeholder \in {po[i].Squadra1, po[i].Squadra2}
        THEN IF po[i].Squadra1 = placeholder
             THEN [po[i] EXCEPT !.Squadra1 = name]
             ELSE [po[i] EXCEPT !.Squadra2 = name]
        ELSE po[i]]

BracketWinner(row) ==
    IF row.Set1 > row.Set2 THEN row.Squadra1
    ELSE IF row.Set2 > row.Set1 THEN row.Squadra2
    ELSE ""

\* BracketLoser that reads the loser from the winning side
BracketLoserSameSide(row) ==
    IF row.Set1 > row.Set2 THEN row.Squadra1
    ELSE IF row.Set2 > row.Set1 THEN row.Squadra2
    ELSE ""

BracketLoser(row) ==
    IF row.Set1 > row.Set2 THEN row.Squadra2
    ELSE IF row.Set2 > row.Set1 THEN row.Squadra1
    ELSE ""

\* min(self.playoffs[self.playoffs["Fase"] == "Semifinals"].index), 1-based
FirstSemifinal(po) ==
    CHOOSE i \in 1..Len(po) :
        /\ po[i].Fase = "Semifinals"
        /\ \A j \in 1..(i - 1) : po[j].Fase # "Semifinals"

\* Propagate that writes a Quarterfinal's winner into its Semifinal side by
\* position, whatever the side holds
PropagateByPosition(po, idx, row) ==
    LET winner == BracketWinner(row)
        loser == BracketLoser(row)
        stored == [po EXCEPT ![idx].Vincitore = winner]
    IN  IF row.Fase = "Quarterfinals" THEN
            LET sf == FirstSemifinal(stored) + ((idx - 1) \div 2)
            IN  IF idx % 2 = 1
                THEN [stored EXCEPT ![sf].Squadra1 = winner]
                ELSE [stored EXCEPT ![sf].Squadra2 = winner]
        ELSE IF row.Fase = "Semifinals" THEN
            LET sf_number == IF idx = FirstSemifinal(stored) THEN 1 ELSE 2
                fin == Substitute(stored, "Finals",
                                  Placeholder("SF", sf_number, "Winner"), winner)
            IN  Substitute(fin, "Third Place",
                           Placeholder("SF", sf_number, "Loser"), loser)
        ELSE stored

Propagate(po, idx, row) ==
    LET winner == BracketWinner(row)
        loser == BracketLoser(row)
        stored == [po EXCEPT ![idx].Vincitore = winner]
    IN  IF row.Fase = "Quarterfinals" THEN
            Substitute(stored, "Semifinals",
                       Placeholder("QF", idx, "Winner"), winner)
        ELSE IF row.Fase = "Semifinals" THEN
            LET sf_number == IF idx = FirstSemifinal(stored) THEN 1 ELSE 2
                fin == Substitute(stored, "Finals",
                                  Placeholder("SF", sf_number, "Winner"), winner)
            IN  Substitute(fin, "Third Place",
                           Placeholder("SF", sf_number, "Loser"), loser)
        ELSE stored

RECURSIVE UpdateRows(_, _, _, _)
UpdateRows(po, snapshot, idx, live) ==
    IF idx > Len(po) THEN po
    ELSE LET row == IF live THEN po[idx] ELSE snapshot[idx]
             step == IF isna(row.Set1) \/ isna(row.Set2)
                     THEN [po EXCEPT ![idx].Vincitore = ""]
                     ELSE Propagate(po, idx, row)
         IN  \* the table after row idx is bound as a value, so that the rest
             \* of the loop does not recompute it at every use
             CHOOSE out \in {UpdateRows(stepped, snapshot, idx + 1, live) :
                                stepped \in {step}} : TRUE

update_playoff_results_op(updated_df, live) ==
    UpdateRows(updated_df, updated_df, 1, live)

(***************************************************************************)
(* generate_final_standings                                                *)
(***************************************************************************)
Position(p, name) == [Posizione |-> p, Nome |-> name]

\* row["Squadra 1"] if row["Vincitore"] == row["Squadra 2"] else row["Squadra 2"]
OtherSide(row) ==
    IF row.Vincitore = row.Squadra2 THEN row.Squadra1 ELSE row.Squadra2

PhaseRows(po, fase) == SelectSeq(po, LAMBDA r : r.Fase = fase)

BracketPositions(po) ==
    LET finals == PhaseRows(po, "Finals")[1]
        third == PhaseRows(po, "Third Place")
        quarters == PhaseRows(po, "Quarterfinals")
        top == << Position(1, finals.Vincitore), Position(2, OtherSide(finals)) >>
        medal == IF third # <<>>
                 THEN top \o << Position(3, third[1].Vincitore),
                                Position(4, OtherSide(third[1])) >>
                 ELSE top
    IN  medal \o [i \in 1..Len(quarters) |->
                    Position(5 + (i - 1), OtherSide(quarters[i]))]

Placed(positions, team) ==
    \E i \in 1..Len(positions) : positions[i].Nome = team

RECURSIVE AppendTeams(_, _, _, _)
AppendTeams(positions, pos, standings, k) ==
    IF k > Len(standings) THEN positions
    ELSE IF Placed(positions, standings[k].Team)
         THEN AppendTeams(positions, pos, standings, k + 1)
         ELSE AppendTeams(Append(positions, Position(pos, standings[k].Team)),
                          pos + 1, standings, k + 1)

\* pos advances by one per appended row, so after a group it is
\* (value before the group) + (rows appended for the group)
RECURSIVE AppendGroups(_, _, _, _, _)
AppendGroups(positions, pos, mts, grps, keys) ==
    IF keys = <<>> THEN positions
    ELSE LET after == AppendTeams(positions, pos,
                         calculate_group_standings(mts, grps, Head(keys)), 1)
         IN  AppendGroups(after, pos + (Len(after) - Len(positions)),
                          mts, grps, Tail(keys))

generate_final_standings_op(po, mts, grps) ==
    LET positions == BracketPositions(po)
    IN  AppendGroups(positions, Len(positions) + 1, mts, grps, Keys(grps))
(***************************************************************************)
(* Inputs of the operations.  Team names are interchangeable, so a new     *)
(* team is always registered under the next unused name.                   *)
(***************************************************************************)
TeamPool == {TeamName(i) : i \in 1..MaxTeams}

\* score pairs typed into a group match: none, one score only, wins of either
\* side by 3:0, 3:2 and 2:1, a level score
GroupScores ==
    {<<NA, NA>>, <<3, NA>>, <<3, 0>>, <<3, 2>>, <<2, 3>>, <<1, 2>>, <<2, 2>>}

\* score pairs typed into a match elsewhere: none, a win of either side, a
\* draw, one score only
PlayoffScores == {<<NA, NA>>, <<3, 1>>, <<1, 3>>, <<2, 2>>, <<3, NA>>}

\* the lifecycle from construction: a win of either side is typed in, and
\* create_groups is called for one group of all teams, for single-team groups
\* or for groups of two
LifecycleScores == {<<3, 1>>, <<1, 3>>}

LifecycleSizes == {<<1, MaxTeams>>, <<MaxTeams, 1>>, <<2, 2>>}

\* every pair <<num_groups, teams_per_group>> within the bounds
AllSizes == (1..MaxGroups) \X (1..MaxPerGroup)

SetScores(df, lo, hi, pair) ==
    [i \in 1..Len(df) |->
        IF lo <= i /\ i <= hi
        THEN [df[i] EXCEPT !.Set1 = pair[1], !.Set2 = pair[2]]
        ELSE df[i]]

\* the table last emitted, unchanged or with the scores retyped in one row or
\* in every row
EditedTables(df, scores) ==
    {df} \cup {SetScores(df, lo, hi, pair) :
                 <<lo, hi, pair>> \in {t \in (1..Len(df)) \X (1..Len(df)) \X scores :
                                          t[1] = t[2] \/ (t[1] = 1 /\ t[2] = Len(df))}}

(***************************************************************************)
(* The operations of TournamentManager as actions.  op and arg record the  *)
(* last call and its scalar arguments (for add_team the name and the value *)
(* returned); updates counts the result-entry calls (update_match_results, *)
(* update_playoff_results) made so far.                                    *)
(***************************************************************************)
Init ==
    /\ teams = <<>>
    /\ groups = EmptyDict
    /\ matches = EmptyDict
    /\ matches_keys = <<>>
    /\ playoffs = <<>>
    /\ final_standings = <<>>
    /\ op = "init"
    /\ arg = <<>>
    /\ updates = 0

add_team ==
    \E name \in TeamPool :
        /\ name \in Names(teams) \/ name = TeamName(Len(teams) + 1)
        /\ teams' = add_team_roster(teams, name)
        /\ op' = "add_team"
        /\ arg' = <<name, add_team_result(teams, name)>>
        /\ UNCHANGED <<groups, matches, matches_keys, playoffs, final_standings, updates>>

\* draws: the outcomes of np.random.shuffle(team_names); sizes: the pairs
\* <<num_groups, teams_per_group>> the call is made with
create_groups(draws, sizes) ==
    \E team_names \in draws :
        \E <<num_groups, teams_per_group>> \in sizes :
            /\ groups' = create_groups_op(team_names, num_groups, teams_per_group)
            /\ matches' = EmptyDict
            /\ matches_keys' = <<>>
            /\ op' = "create_groups"
            /\ arg' = <<num_groups, teams_per_group>>
            /\ UNCHANGED <<teams, playoffs, final_standings, updates>>

generate_matches ==
    /\ matches' = generate_matches_op(groups)
    /\ matches_keys' = Keys(groups)
    /\ op' = "generate_matches"
    /\ arg' = <<>>
    /\ UNCHANGED <<teams, groups, playoffs, final_standings, updates>>

\* update_match_results that stores the table under every group
update_match_results_every_group(scores) ==
    /\ updates < MaxEdits
    /\ \E group \in DOMAIN matches :
        \E updated_df \in EditedTables(matches[group], scores) :
            /\ matches' = [g \in DOMAIN matches |-> update_match_results_op(updated_df)]
            /\ op' = "update_match_results"
            /\ arg' = <<group>>
            /\ updates' = updates + 1
            /\ UNCHANGED <<teams, groups, matches_keys, playoffs, final_standings>>

update_match_results(scores) ==
    /\ updates < MaxEdits
    /\ \E group \in DOMAIN matches :
        \E updated_df \in EditedTables(matches[group], scores) :
            /\ matches' = [matches EXCEPT ![group] = update_match_results_op(updated_df)]
            /\ op' = "update_match_results"
            /\ arg' = <<group>>
            /\ updates' = updates + 1
            /\ UNCHANGED <<teams, groups, matches_keys, playoffs, final_standings>>

\* standings["Team"] of the empty DataFrame returned for a group without a
\* match table raises KeyError before anything is stored
generate_playoffs ==
    \E teams_advancing \in 1..MaxAdvancing :
        /\ DOMAIN groups \subseteq DOMAIN matches
        /\ playoffs' = generate_playoffs_op(matches, groups, teams_advancing)
        /\ op' = "generate_playoffs"
        /\ arg' = <<teams_advancing>>
        /\ UNCHANGED <<teams, groups, matches, matches_keys, final_standings, updates>>

update_playoff_results(scores) ==
    /\ updates < MaxUpdates
    /\ \E updated_df \in EditedTables(playoffs, scores), live \in BOOLEAN :
          playoffs' = update_playoff_results_op(updated_df, live)
    /\ op' = "update_playoff_results"
    /\ arg' = <<>>
    /\ updates' = updates + 1
    /\ UNCHANGED <<teams, groups, matches, matches_keys, final_standings>>

generate_final_standings ==
    /\ final_standings' =
          IF playoffs = <<>> \/ ~ check_playoffs_complete(playoffs)
          THEN final_standings
          ELSE generate_final_standings_op(playoffs, matches, groups)
    /\ (playoffs # <<>> /\ check_playoffs_complete(playoffs))
          => DOMAIN groups \subseteq DOMAIN matches
    /\ op' = "generate_final_standings"
    /\ arg' = <<>>
    /\ UNCHANGED <<teams, groups, matches, matches_keys, playoffs, updates>>

Next ==
    \/ add_team
    \/ create_groups(Shuffles(teams), LifecycleSizes)
    \/ generate_matches
    \/ update_match_results(LifecycleScores)
    \/ generate_playoffs
    \/ update_playoff_results(LifecycleScores)
    \/ generate_final_standings

Spec == Init /\ [][Next]_vars

(***************************************************************************)
(* Bracket study: the state after r teams were registered and split into   *)
(* groups of two (create_groups((r + 1) \div 2, 2), the last group holding  *)
(* one team when r is odd) and every group match was won 3:1 by its first  *)
(* side; from there the bracket operations.                                *)
(***************************************************************************)
InitBracket ==
    \E r \in 1..MaxBracketTeams :
        /\ teams = [i \in 1..r |-> TeamName(i)]
        /\ groups = create_groups_op(teams, (r + 1) \div 2, 2)
        /\ matches = [g \in DOMAIN groups |->
                        update_match_results_op(
                            SetScores(generate_matches_op(groups)[g], 1, 1, <<3, 1>>))]
        /\ matches_keys = Keys(groups)
        /\ playoffs = <<>>
        /\ final_standings = <<>>
        /\ op = "init"
        /\ arg = <<>>
        /\ updates = 0

NextBracket ==
    \/ generate_playoffs
    \/ update_playoff_results(PlayoffScores)
    \/ generate_final_standings

SpecBracket == InitBracket /\ [][NextBracket]_vars
(***************************************************************************)
(* Grouping study: the state after n teams were registered; from there     *)
(* create_groups and generate_matches.                                     *)
(***************************************************************************)
InitGroup ==
    \E n \in 0..MaxRoster :
        /\ teams = [i \in 1..n |-> TeamName(i)]
        /\ groups = EmptyDict
        /\ matches = EmptyDict
        /\ matches_keys = <<>>
        /\ playoffs = <<>>
        /\ final_standings = <<>>
        /\ op = "init"
        /\ arg = <<>>
        /\ updates = 0

NextGroup ==
    \/ create_groups(Shuffles(teams), AllSizes)
    \/ generate_matches

SpecGroup == InitGroup /\ [][NextGroup]_vars

(***************************************************************************)
(* Standings study: the state after n teams were registered and put in one *)
(* group (create_groups(1, n)); from there the match tables are generated  *)
(* and filled with the score pairs of GroupScores.                          *)
(***************************************************************************)
InitStandings ==
    \E n \in 1..MaxRoster :
        /\ teams = [i \in 1..n |-> TeamName(i)]
        /\ groups = create_groups_op(teams, 1, n)
        /\ matches = EmptyDict
        /\ matches_keys = <<>>
        /\ playoffs = <<>>
        /\ final_standings = <<>>
        /\ op = "init"
        /\ arg = <<>>
        /\ updates = 0

NextStandings ==
    \/ generate_matches
    \/ update_match_results(GroupScores)

SpecStandings == InitStandings /\ [][NextStandings]_vars

(***************************************************************************)
(* Two-group study: the state after 2n teams were registered and split     *)
(* into two groups of n (create_groups(2, n)) and the match tables were    *)
(* generated; from there results are entered group by group and brackets   *)
(* are generated.                                                          *)
(***************************************************************************)
InitTwoGroups ==
    \E n \in 2..(MaxRoster - 1) :
        /\ teams = [i \in 1..(2 * n) |-> TeamName(i)]
        /\ groups = create_groups_op(teams, 2, n)
        /\ matches = generate_matches_op(groups)
        /\ matches_keys = Keys(groups)
        /\ playoffs = <<>>
        /\ final_standings = <<>>
        /\ op = "init"
        /\ arg = <<>>
        /\ updates = 0

NextTwoGroups ==
    \/ update_match_results(GroupScores)
    \/ generate_playoffs

SpecTwoGroups == InitTwoGroups /\ [][NextTwoGroups]_vars

(***************************************************************************)
(* Properties of update_playoff_results.                                   *)
(***************************************************************************)
QFRows(po) == {k \in 1..Len(po) : po[k].Fase = "Quarterfinals"}

SFRows(po) == {k \in 1..Len(po) : po[k].Fase = "Semifinals"}

Scored(row) == ~ isna(row.Set1) /\ ~ isna(row.Set2)

\* the placeholder strings written by generate_playoffs
QFk(k) == <<"QF1 Winner", "QF2 Winner", "QF3 Winner", "QF4 Winner">>[k]

SFWinner(n) == <<"SF1 Winner", "SF2 Winner">>[n]

SFLoser(n) == <<"SF1 Loser", "SF2 Loser">>[n]

\* C1: an update_playoff_results call that stores Quarterfinal k with both
\* scores present and side1 ahead puts side1's name in every Semifinal side
\* that held "QFk Winner", and leaves alone every Semifinal side that holds the
\* placeholder of another Quarterfinal whose scores are absent.
C1_QuarterfinalWinnerPropagates ==
    [][ op' = "update_playoff_results" =>
          \A k \in QFRows(playoffs') :
            (Scored(playoffs'[k]) /\ playoffs'[k].Set1 > playoffs'[k].Set2) =>
              \A i \in SFRows(playoffs) :
                /\ playoffs[i].Squadra1 = QFk(k)
                      => playoffs'[i].Squadra1 = playoffs'[k].Squadra1
                /\ playoffs[i].Squadra2 = QFk(k)
                      => playoffs'[i].Squadra2 = playoffs'[k].Squadra1
                /\ \A j \in QFRows(playoffs') \ {k} :
                      ~ Scored(playoffs'[j]) =>
                        /\ playoffs[i].Squadra1 = QFk(j)
                              => playoffs'[i].Squadra1 = QFk(j)
                        /\ playoffs[i].Squadra2 = QFk(j)
                              => playoffs'[i].Squadra2 = QFk(j) ]_vars

\* Quarterfinal 1 is won by its side1, the first Semifinal now names that team
\* and still names "QF2 Winner" for the unplayed Quarterfinal 2.
C1_Witness ==
    /\ op = "update_playoff_results"
    /\ Len(playoffs) = 8
    /\ Scored(playoffs[1]) /\ playoffs[1].Set1 > playoffs[1].Set2
    /\ ~ Scored(playoffs[2])
    /\ playoffs[5].Squadra1 = playoffs[1].Squadra1
    /\ playoffs[5].Squadra2 = "QF2 Winner"

\* the slots fed by row k of the bracket: <<row, placeholder>>
Downstream(po, k) ==
    IF po[k].Fase = "Quarterfinals" THEN
        {<<i, QFk(k)>> : i \in SFRows(po)}
    ELSE IF po[k].Fase = "Semifinals" THEN
        LET n == IF k = FirstSemifinal(po) THEN 1 ELSE 2
        IN  {<<i, SFWinner(n)>> :
                 i \in {i \in 1..Len(po) : po[i].Fase = "Finals"}}
            \cup {<<i, SFLoser(n)>> :
                 i \in {i \in 1..Len(po) : po[i].Fase = "Third Place"}}
    ELSE {}

\* C2: an update_playoff_results call that stores a match with both scores
\* present and equal leaves its winner empty and every downstream slot that
\* held the match's placeholder still holds it.
C2_DrawDoesNotPropagate ==
    [][ op' = "update_playoff_results" =>
          \A k \in 1..Len(playoffs') :
            (Scored(playoffs'[k]) /\ playoffs'[k].Set1 = playoffs'[k].Set2) =>
              /\ playoffs'[k].Vincitore = ""
              /\ \A d \in Downstream(playoffs, k) :
                    /\ playoffs[d[1]].Squadra1 = d[2]
                          => playoffs'[d[1]].Squadra1 = d[2]
                    /\ playoffs[d[1]].Squadra2 = d[2]
                          => playoffs'[d[1]].Squadra2 = d[2] ]_vars

\* C3: the bracket stored by update_playoff_results is a fixed point of
\* update_playoff_results.
C3_UpdateIdempotent ==
    op = "update_playoff_results" =>
        \A live \in BOOLEAN : update_playoff_results_op(playoffs, live) = playoffs

GroupedTeams == UNION {Names(groups[g]) : g \in DOMAIN groups}

Rows(team) ==
    {i \in 1..Len(final_standings) : final_standings[i].Nome = team}

\* the last call was a generate_final_standings that stored new standings
FinalStandingsTookEffect ==
    /\ op = "generate_final_standings"
    /\ playoffs # <<>>
    /\ check_playoffs_complete(playoffs)

\* C4: after a generate_final_standings call that takes effect every team of a
\* current group is in exactly one row of the final standings.
C4_EveryTeamExactlyOnce ==
    FinalStandingsTookEffect =>
        \A t \in GroupedTeams : Cardinality(Rows(t)) = 1
(***************************************************************************)
(* Properties of create_groups, generate_matches and the group standings.  *)
(***************************************************************************)
\* C5: after create_groups returns, the downstream state of the previous
\* cycle is cleared, whatever the state before the call: the group match
\* tables, the playoff bracket and the final standings are all empty.
C5_CreateGroupsClearsDownstream ==
    op = "create_groups" =>
        /\ DOMAIN matches = {}
        /\ playoffs = <<>>
        /\ final_standings = <<>>

\* the standings row of a team
RowOf(standings, team) ==
    standings[CHOOSE i \in 1..Len(standings) : standings[i].Team = team]

Completed(m) == ~ isna(m.Set1) /\ ~ isna(m.Set2)

\* sets of a side of a match and of its opponent; <<0, 0>> for a team that
\* is not a side of the match
SetsOf(team, m) ==
    IF team = m.Squadra1 THEN <<m.Set1, m.Set2>>
    ELSE IF team = m.Squadra2 THEN <<m.Set2, m.Set1>>
    ELSE <<0, 0>>

\* points the claim gives a team for one match: 3 for more sets, 1 for
\* losing 2 sets to 3, 0 otherwise
Award(team, m) ==
    LET mine == SetsOf(team, m)[1]
        theirs == SetsOf(team, m)[2]
    IN  IF ~ Completed(m) \/ mine = theirs THEN 0
        ELSE IF mine > theirs THEN 3
        ELSE IF theirs = 3 /\ mine = 2 THEN 1
        ELSE 0

WinOf(team, m) ==
    IF Completed(m) /\ SetsOf(team, m)[1] > SetsOf(team, m)[2] THEN 1 ELSE 0

LossOf(team, m) ==
    IF Completed(m) /\ SetsOf(team, m)[1] < SetsOf(team, m)[2] THEN 1 ELSE 0

RECURSIVE SumOver(_, _, _, _)
SumOver(F(_, _), team, df, k) ==
    IF k = 0 THEN 0 ELSE F(team, df[k]) + SumOver(F, team, df, k - 1)

StandingsOf(g) == calculate_group_standings(matches, groups, g)

\* C6: a team's Points are the sum over the completed matches of its group of
\* 3 for a match it won, 1 for a match it lost 2:3 and 0 otherwise; a match
\* with equal scores gives neither side points, a win or a loss.
C6_PointsPerMatch ==
    \A g \in DOMAIN matches :
        \A i \in 1..Len(groups[g]) :
            LET t == groups[g][i]
                row == RowOf(StandingsOf(g), t)
                df == matches[g]
            IN  /\ row.Points = SumOver(Award, t, df, Len(df))
                /\ row.Wins = SumOver(WinOf, t, df, Len(df))
                /\ row.Losses = SumOver(LossOf, t, df, Len(df))

\* a match ended 3:2 and a match ended level are in the table: the standings
\* give the 2:3 loser 1 point and the winner 3
C6_Witness ==
    /\ op = "update_match_results"
    /\ "A" \in DOMAIN matches
    /\ \E k \in 1..Len(matches["A"]) :
          LET m == matches["A"][k]
          IN  /\ m.Set1 = 3 /\ m.Set2 = 2
              /\ RowOf(StandingsOf("A"), m.Squadra1).Points = 3
              /\ RowOf(StandingsOf("A"), m.Squadra2).Points = 1

\* C7: the standings rows are the teams of the group, each once, in
\* descending order of points, then of sets won minus sets lost, then of
\* sets won.
C7_StandingsOrdered ==
    \A g \in DOMAIN matches :
        LET st == StandingsOf(g)
        IN  /\ Len(st) = Len(groups[g])
            /\ {st[i].Team : i \in 1..Len(st)} = Names(groups[g])
            /\ \A i, j \in 1..Len(st) :
                  i < j =>
                    /\ st[i].Points >= st[j].Points
                    /\ st[i].Points = st[j].Points =>
                          /\ st[i].SetsWon - st[i].SetsLost
                                >= st[j].SetsWon - st[j].SetsLost
                          /\ (st[i].SetsWon - st[i].SetsLost
                                = st[j].SetsWon - st[j].SetsLost)
                                => st[i].SetsWon >= st[j].SetsWon

\* two teams level on points and on set difference are ranked by sets won,
\* against their order in the group
C7_Witness ==
    /\ "A" \in DOMAIN matches
    /\ LET st == StandingsOf("A")
       IN  /\ Len(st) = 3
           /\ st[1].Points = st[3].Points
           /\ st[1].SetsWon - st[1].SetsLost = st[3].SetsWon - st[3].SetsLost
           /\ st[2].SetsWon > st[3].SetsWon
           /\ st[3].Team = groups["A"][1]

\* number of qualified teams: the first teams_advancing of every group
RECURSIVE QualifiedCount(_, _)
QualifiedCount(keys, teams_advancing) ==
    IF keys = <<>> THEN 0
    ELSE Min(teams_advancing, Len(groups[Head(keys)]))
         + QualifiedCount(Tail(keys), teams_advancing)

PhaseCount(fase) == Cardinality({i \in 1..Len(playoffs) : playoffs[i].Fase = fase})

Shape == <<PhaseCount("Quarterfinals"), PhaseCount("Semifinals"),
           PhaseCount("Finals"), PhaseCount("Third Place"), Len(playoffs)>>

\* C8: the bracket stored by generate_playoffs has the shape given by the
\* number q of qualified teams alone, and every match of it has no scores and
\* no winner.
C8_BracketShape ==
    op = "generate_playoffs" =>
        LET q == QualifiedCount(Keys(groups), arg[1])
        IN  /\ q >= 8 => Shape = <<4, 2, 1, 1, 8>>
            /\ (4 <= q /\ q <= 7) => Shape = <<0, 2, 1, 1, 4>>
            /\ (2 <= q /\ q <= 3) => Shape = <<0, 0, 1, 0, 1>>
            /\ q < 2 => Shape = <<0, 0, 0, 0, 0>>
            /\ \A i \in 1..Len(playoffs) :
                  /\ playoffs[i].Set1 = NA
                  /\ playoffs[i].Set2 = NA
                  /\ playoffs[i].Vincitore = ""

\* generate_playoffs has run with exactly 8 qualified teams and stored
\* 8 matches
C8_Witness ==
    /\ op = "generate_playoffs"
    /\ QualifiedCount(Keys(groups), arg[1]) = 8
    /\ Len(playoffs) = 8

\* row numbers of the table that pair team a (side1) with team b (side2)
Pairings(df, a, b) ==
    {k \in 1..Len(df) : df[k].Squadra1 = a /\ df[k].Squadra2 = b}

\* C9: generate_matches stores for every group of n teams n(n-1)/2 matches,
\* team i against team j exactly once for i < j and never the other way
\* round, without scores and without winner.
C9_RoundRobin ==
    op = "generate_matches" =>
        /\ DOMAIN matches = DOMAIN groups
        /\ \A g \in DOMAIN groups :
              LET tms == groups[g]
                  n == Len(tms)
                  df == matches[g]
              IN  /\ 2 * Len(df) = n * (n - 1)
                  /\ \A i, j \in 1..n :
                        Cardinality(Pairings(df, tms[i], tms[j]))
                            = IF i < j THEN 1 ELSE 0
                  /\ \A k \in 1..Len(df) :
                        /\ df[k].Set1 = NA
                        /\ df[k].Set2 = NA
                        /\ df[k].Vincitore = ""

\* generate_matches has run for a group of three teams whose results had been
\* entered before
C9_Witness ==
    /\ op = "generate_matches"
    /\ updates > 0
    /\ "A" \in DOMAIN groups
    /\ Len(groups["A"]) = 3
    /\ Len(matches["A"]) = 3

Letters == <<"A", "B", "C", "D", "E", "F">>

RECURSIVE TotalSize(_, _)
TotalSize(grps, labels) ==
    IF labels = {} THEN 0
    ELSE LET g == CHOOSE x \in labels : TRUE
         IN  Len(grps[g]) + TotalSize(grps, labels \ {g})

\* C10: after create_groups(num_groups, teams_per_group) the groups are
\* labelled A, B, ... without a gap, are pairwise disjoint, hold only roster
\* teams, at most teams_per_group each and
\* min(roster size, num_groups * teams_per_group) together; the roster is
\* unchanged.
C10_GroupsPartitionPrefix ==
    [][ op' = "create_groups" =>
          LET grps == groups'
              labels == DOMAIN grps
          IN  /\ labels = {Letters[i] : i \in 1..Cardinality(labels)}
              /\ \A g \in labels :
                    /\ Names(grps[g]) \subseteq Names(teams)
                    /\ Len(grps[g]) <= arg'[2]
                    /\ Cardinality(Names(grps[g])) = Len(grps[g])
              /\ \A g, h \in labels :
                    g # h => Names(grps[g]) \cap Names(grps[h]) = {}
              /\ TotalSize(grps, labels) = Min(Len(teams), arg'[1] * arg'[2])
              /\ teams' = teams ]_vars

\* create_groups made two groups and left a registered team out
C10_Witness ==
    /\ op = "create_groups"
    /\ Cardinality(DOMAIN groups) = 2
    /\ arg[1] * arg[2] < Len(teams)
    /\ Names(teams) \ GroupedTeams # {}

(***************************************************************************)
(* Properties of add_team.                                                 *)
(***************************************************************************)
\* C11: add_team with a name of the roster returns false and changes nothing;
\* with a new name it returns true and appends that one name; the roster
\* never holds a name twice.
C11_AddTeamRejectsDuplicates ==
    [][ /\ op' = "add_team" =>
              /\ IF \E i \in 1..Len(teams) : teams[i] = arg'[1]
                 THEN arg'[2] = FALSE /\ teams' = teams
                 ELSE arg'[2] = TRUE /\ teams' = teams \o <<arg'[1]>>
              /\ UNCHANGED <<groups, matches, matches_keys, playoffs, final_standings>>
        /\ \A i, j \in 1..Len(teams') : teams'[i] = teams'[j] => i = j ]_vars

\* add_team was called with the name of the first of two registered teams and
\* returned false
C11_Witness ==
    /\ op = "add_team"
    /\ Len(teams) = 2
    /\ arg = <<teams[1], FALSE>>

(***************************************************************************)
(* Properties of update_match_results.                                     *)
(***************************************************************************)
\* C12: after update_match_results(group, M) the winner of every match of
\* the group follows from its scores: empty when a score is missing, side 1
\* when score 1 is larger, side 2 when score 2 is larger, "Draw" when they
\* are equal; a match with both scores has exactly one of the three.
C12_WinnerFromScores ==
    op = "update_match_results" =>
        \A k \in 1..Len(matches[arg[1]]) :
            LET m == matches[arg[1]][k]
                outcomes == {m.Squadra1, m.Squadra2, "Draw"}
            IN  /\ (m.Set1 = NA \/ m.Set2 = NA) => m.Vincitore = ""
                /\ (m.Set1 # NA /\ m.Set2 # NA) =>
                      /\ m.Set1 > m.Set2 => m.Vincitore = m.Squadra1
                      /\ m.Set2 > m.Set1 => m.Vincitore = m.Squadra2
                      /\ m.Set1 = m.Set2 => m.Vincitore = "Draw"
                      /\ Cardinality({w \in outcomes : w = m.Vincitore}) = 1
                      /\ Cardinality(outcomes) = 3

\* update_match_results stored a level match and a match with one score only
C12_Witness ==
    /\ op = "update_match_results"
    /\ \E i, j \in 1..Len(matches[arg[1]]) :
          LET df == matches[arg[1]]
          IN  /\ df[i].Set1 = df[i].Set2 /\ df[i].Vincitore = "Draw"
              /\ df[j].Set1 # NA /\ df[j].Set2 = NA /\ df[j].Vincitore = ""

(***************************************************************************)
(* Properties of generate_final_standings and check_groups_complete.       *)
(***************************************************************************)
\* a bracket exists and every match of it has both scores
BracketComplete ==
    /\ Len(playoffs) > 0
    /\ \A i \in 1..Len(playoffs) : playoffs[i].Set1 # NA /\ playoffs[i].Set2 # NA

\* C13: generate_final_standings changes nothing unless a bracket exists and
\* every bracket match has both scores: otherwise the final standings, the
\* bracket, the groups, the group matches and the roster stay as they were.
C13_FinalStandingsNoOpUnlessComplete ==
    [][ (op' = "generate_final_standings" /\ ~ BracketComplete) =>
            UNCHANGED <<final_standings, playoffs, groups, matches, teams>> ]_vars

\* generate_final_standings was called on a bracket with a match lacking its
\* second score only, while final standings of an earlier bracket were stored
C13_Witness ==
    /\ op = "generate_final_standings"
    /\ final_standings # <<>>
    /\ Len(playoffs) > 0
    /\ \A i \in 1..Len(playoffs) : playoffs[i].Set1 # NA
    /\ \E i \in 1..Len(playoffs) : playoffs[i].Set2 = NA

\* both scores present and unequal
Decisive(m) == m.Set1 # NA /\ m.Set2 # NA /\ m.Set1 # m.Set2

WinningSide(m) == IF m.Set1 > m.Set2 THEN m.Squadra1 ELSE m.Squadra2

LosingSide(m) == IF m.Set1 > m.Set2 THEN m.Squadra2 ELSE m.Squadra1

RowsOfPhase(fase) == SelectSeq(playoffs, LAMBDA r : r.Fase = fase)

\* the teams of the groups in label order and, within a group, standings
\* order, without the names in placed
RECURSIVE RemainingTeams(_, _)
RemainingTeams(labels, placed) ==
    IF labels = <<>> THEN <<>>
    ELSE LET st == StandingsOf(Head(labels))
             names == [i \in 1..Len(st) |-> st[i].Team]
         IN  SelectSeq(names, LAMBDA t : t \notin placed)
             \o RemainingTeams(Tail(labels), placed)

\* C14: when generate_final_standings takes effect, rows 1 and 2 are the
\* winner and the other side of the Final, rows 3 and 4 those of the Third
\* Place match if there is one, the next rows the losers of the
\* Quarterfinals in match order, then the remaining teams by group label and
\* standings order; the positions are 1, 2, ..., k in row order.
C14_FinalStandingsOrder ==
    (op = "generate_final_standings" /\ BracketComplete) =>
        LET fs == final_standings
            final == RowsOfPhase("Finals")[1]
            third == RowsOfPhase("Third Place")
            quarters == RowsOfPhase("Quarterfinals")
            nb == 2 + 2 * Len(third) + Len(quarters)
            placed == {fs[i].Nome : i \in 1..nb}
            rest == RemainingTeams(SelectSeq(Letters, LAMBDA g : g \in DOMAIN groups),
                                   placed)
        IN  /\ Len(fs) = nb + Len(rest)
            /\ \A i \in 1..Len(fs) : fs[i].Posizione = i
            /\ Decisive(final) =>
                  fs[1].Nome = WinningSide(final) /\ fs[2].Nome = LosingSide(final)
            /\ (third # <<>> /\ Decisive(third[1])) =>
                  fs[3].Nome = WinningSide(third[1]) /\ fs[4].Nome = LosingSide(third[1])
            /\ \A i \in 1..Len(quarters) :
                  Decisive(quarters[i]) => fs[4 + i].Nome = LosingSide(quarters[i])
            /\ \A i \in 1..Len(rest) : fs[nb + i].Nome = rest[i]

\* C15: check_groups_complete returns a boolean in every reachable state:
\* false when there are no match tables, otherwise true exactly when every
\* match of every group has both scores.
C15_CheckGroupsCompleteTotal ==
    check_groups_complete(matches, matches_keys) =
        IF DOMAIN matches = {} THEN "False"
        ELSE IF \A g \in DOMAIN matches : \A k \in 1..Len(matches[g]) :
                    matches[g][k].Set1 # NA /\ matches[g][k].Set2 # NA
             THEN "True"
             ELSE "False"

(***************************************************************************)
(* Properties of the propagation out of the Semifinals and of the pairing. *)
(***************************************************************************)
PhaseIndex(po, fase) == {i \in 1..Len(po) : po[i].Fase = fase}

\* 1 for the first Semifinal row of the bracket, 2 for the other
SFNumber(po, k) == IF \A j \in SFRows(po) : k <= j THEN 1 ELSE 2

\* C16: after an update_playoff_results call that stores a Semifinal with
\* both scores present and unequal, the Final side that held its
\* "SFn Winner" placeholder holds the Semifinal's winning side and the Third
\* Place side that held "SFn Loser" holds its losing side; the placeholders
\* of the other Semifinal stay when that Semifinal has no scores.
C16_SemifinalPropagates ==
    [][ op' = "update_playoff_results" =>
          \A k \in SFRows(playoffs') :
            Decisive(playoffs'[k]) =>
              LET n == SFNumber(playoffs', k)
                  sf == playoffs'[k]
              IN  /\ \A i \in PhaseIndex(playoffs, "Finals") :
                        /\ playoffs[i].Squadra1 = SFWinner(n)
                              => playoffs'[i].Squadra1 = WinningSide(sf)
                        /\ playoffs[i].Squadra2 = SFWinner(n)
                              => playoffs'[i].Squadra2 = WinningSide(sf)
                  /\ \A i \in PhaseIndex(playoffs, "Third Place") :
                        /\ playoffs[i].Squadra1 = SFLoser(n)
                              => playoffs'[i].Squadra1 = LosingSide(sf)
                        /\ playoffs[i].Squadra2 = SFLoser(n)
                              => playoffs'[i].Squadra2 = LosingSide(sf)
                  /\ \A j \in SFRows(playoffs') \ {k} :
                        (playoffs'[j].Set1 = NA /\ playoffs'[j].Set2 = NA) =>
                          \A i \in PhaseIndex(playoffs, "Finals")
                                     \cup PhaseIndex(playoffs, "Third Place") :
                            \A p \in {SFWinner(3 - n), SFLoser(3 - n)} :
                              /\ playoffs[i].Squadra1 = p => playoffs'[i].Squadra1 = p
                              /\ playoffs[i].Squadra2 = p => playoffs'[i].Squadra2 = p
      ]_vars

(***************************************************************************)
(* Further properties of the group standings.                              *)
(***************************************************************************)
PlayedIn(team, m) ==
    IF Completed(m) /\ team \in {m.Squadra1, m.Squadra2} THEN 1 ELSE 0

OwnSets(team, m) == IF Completed(m) THEN SetsOf(team, m)[1] ELSE 0

OpponentSets(team, m) == IF Completed(m) THEN SetsOf(team, m)[2] ELSE 0

RECURSIVE ColumnSum(_, _, _)
ColumnSum(Col(_), st, k) ==
    IF k = 0 THEN 0 ELSE Col(st[k]) + ColumnSum(Col, st, k - 1)

ColSetsWon(r) == r.SetsWon

ColSetsLost(r) == r.SetsLost

ColWins(r) == r.Wins

ColLosses(r) == r.Losses

\* C17: in the standings of a group every team's Sets Won and Sets Lost are
\* its own and its opponents' sets over the completed matches it is a side
\* of, and its Matches Played is the number of those matches; the group's
\* Sets Won sum to its Sets Lost and its Wins sum to its Losses.
C17_SetsSymmetric ==
    \A g \in DOMAIN matches :
        LET st == StandingsOf(g)
            df == matches[g]
        IN  /\ \A i \in 1..Len(st) :
                  /\ st[i].MatchesPlayed = SumOver(PlayedIn, st[i].Team, df, Len(df))
                  /\ st[i].SetsWon = SumOver(OwnSets, st[i].Team, df, Len(df))
                  /\ st[i].SetsLost = SumOver(OpponentSets, st[i].Team, df, Len(df))
            /\ ColumnSum(ColSetsWon, st, Len(st)) = ColumnSum(ColSetsLost, st, Len(st))
            /\ ColumnSum(ColWins, st, Len(st)) = ColumnSum(ColLosses, st, Len(st))

\* a group of three where a team has played a level match and a match it
\* won, and a third match has one score only
C17_Witness ==
    /\ "A" \in DOMAIN matches
    /\ Len(matches["A"]) = 3
    /\ \E k \in 1..3 : ~ Completed(matches["A"][k])
    /\ \E i \in 1..3 :
          LET r == StandingsOf("A")[i]
          IN  r.MatchesPlayed = 2 /\ r.Wins = 1 /\ r.Losses = 0

\* C18: update_match_results(H, M) leaves the stored matches and the
\* standings of every other group, the groups, the roster, the bracket and
\* the final standings unchanged.
C18_OtherGroupsUntouched ==
    [][ op' = "update_match_results" =>
          /\ DOMAIN matches' = DOMAIN matches
          /\ \A g \in DOMAIN matches \ {arg'[1]} :
                /\ matches'[g] = matches[g]
                /\ calculate_group_standings(matches', groups', g)
                      = calculate_group_standings(matches, groups, g)
          /\ UNCHANGED <<groups, teams, playoffs, final_standings>> ]_vars

\* results were entered for group A after group B had results and a bracket
\* had been generated
C18_Witness ==
    /\ op = "update_match_results"
    /\ arg = <<"A">>
    /\ playoffs # <<>>
    /\ \E k \in 1..Len(matches["A"]) : Completed(matches["A"][k])
    /\ \E k \in 1..Len(matches["B"]) : Completed(matches["B"][k])

\* the first n teams of every group's standings, group after group in label
\* order
RECURSIVE TopOfGroups(_, _)
TopOfGroups(labels, n) ==
    IF labels = <<>> THEN <<>>
    ELSE LET st == StandingsOf(Head(labels))
         IN  [i \in 1..(IF n < Len(st) THEN n ELSE Len(st)) |-> st[i].Team]
             \o TopOfGroups(Tail(labels), n)

\* C19: generate_playoffs(teams_advancing) pairs the qualified list - each
\* group's first teams_advancing teams in standings order, group after
\* group - first against last: with q teams, first-round match i has
\* qualified[i] as side 1 and qualified[q-1-i] as side 2 (i = 0..3 for
\* q >= 8, i = 0..1 for 4 <= q <= 7); for 2 <= q <= 3 the Final is
\* qualified[0] against qualified[1].
C19_FirstAgainstLast ==
    op = "generate_playoffs" =>
        LET qualified == TopOfGroups(SelectSeq(Letters, LAMBDA g : g \in DOMAIN groups),
                                     arg[1])
            q == Len(qualified)
            first == IF q >= 8 THEN 4 ELSE IF q >= 4 THEN 2 ELSE 0
        IN  /\ \A i \in 0..(first - 1) :
                  /\ playoffs[i + 1].Fase
                        = (IF q >= 8 THEN "Quarterfinals" ELSE "Semifinals")
                  /\ playoffs[i + 1].Squadra1 = qualified[i + 1]
                  /\ playoffs[i + 1].Squadra2 = qualified[q - i]
            /\ (2 <= q /\ q <= 3) =>
                  /\ playoffs[1].Fase = "Finals"
                  /\ playoffs[1].Squadra1 = qualified[1]
                  /\ playoffs[1].Squadra2 = qualified[2]

\* generate_playoffs(1) has paired the winners of four groups in two
\* Semifinals: A's against D's, B's against C's
C19_Witness ==
    /\ op = "generate_playoffs"
    /\ arg = <<1>>
    /\ Cardinality(DOMAIN groups) = 4
    /\ Len(playoffs) = 4
    /\ playoffs[1].Squadra1 = StandingsOf("A")[1].Team
    /\ playoffs[1].Squadra2 = StandingsOf("D")[1].Team
    /\ playoffs[2].Squadra1 = StandingsOf("B")[1].Team
    /\ playoffs[2].Squadra2 = StandingsOf("C")[1].Team

(***************************************************************************)
(* Properties of edited bracket results.                                   *)
(***************************************************************************)
SideOf(row, s) == IF s = 1 THEN row.Squadra1 ELSE row.Squadra2

\* the slots a bracket row feeds, from the placeholders generate_playoffs
\* writes: <<source row, target row, side, "Winner" or "Loser">>
Feeds(po) ==
    {<<k, t, (IF k % 2 = 1 THEN 1 ELSE 2), "Winner">> :
        <<k, t>> \in {x \in QFRows(po) \X SFRows(po) :
                         SFNumber(po, x[2]) = (x[1] + 1) \div 2}}
    \cup {<<k, t, SFNumber(po, k), "Winner">> :
        <<k, t>> \in SFRows(po) \X PhaseIndex(po, "Finals")}
    \cup {<<k, t, SFNumber(po, k), "Loser">> :
        <<k, t>> \in SFRows(po) \X PhaseIndex(po, "Third Place")}

\* the step re-enters row k with the other side ahead and leaves the scores
\* of every other row as they were
Reversed(k) ==
    /\ Decisive(playoffs[k]) /\ Decisive(playoffs'[k])
    /\ (playoffs[k].Set1 > playoffs[k].Set2) # (playoffs'[k].Set1 > playoffs'[k].Set2)
    /\ \A j \in (1..Len(playoffs)) \ {k} :
          playoffs'[j].Set1 = playoffs[j].Set1 /\ playoffs'[j].Set2 = playoffs[j].Set2

\* C20: when a downstream slot holds the team name propagated from its
\* source match and an update_playoff_results call re-enters the source with
\* the other side ahead, the slot keeps the name it held, while the source's
\* winner field shows the new winner.
C20_NoRollback ==
    [][ op' = "update_playoff_results" =>
          \A k \in 1..Len(playoffs) :
            Reversed(k) =>
              \A f \in {x \in Feeds(playoffs) : x[1] = k} :
                LET held == SideOf(playoffs[f[2]], f[3])
                    propagated == IF f[4] = "Winner" THEN WinningSide(playoffs[k])
                                  ELSE LosingSide(playoffs[k])
                IN  (held \in Names(teams) /\ held = propagated) =>
                        /\ SideOf(playoffs'[f[2]], f[3]) = held
                        /\ playoffs'[k].Vincitore = WinningSide(playoffs'[k])
                        /\ f[4] = "Winner" => playoffs'[k].Vincitore # held
                        /\ f[4] = "Loser" => playoffs'[k].Vincitore = held ]_vars

\* Quarterfinal 1 was won by side 1, then re-entered as won by side 2: its
\* winner field names side 2 and the first Semifinal still names side 1
C20_Witness ==
    /\ op = "update_playoff_results"
    /\ updates = 2
    /\ Len(playoffs) = 8
    /\ playoffs[1].Set1 < playoffs[1].Set2
    /\ playoffs[1].Vincitore = playoffs[1].Squadra2
    /\ playoffs[5].Squadra1 = playoffs[1].Squadra1
    /\ \A j \in 2..8 : playoffs[j].Set1 = NA /\ playoffs[j].Set2 = NA

(***************************************************************************)
(* C21: winner fields and downstream slots hold no placeholder             *)
(***************************************************************************)
PlaceholderStrings ==
    {Placeholder(ph, k, what) :
        ph \in {"QF", "SF"}, k \in 1..4, what \in {"Winner", "Loser"}}

\* C21: in every reachable state the winner field of every playoff match is
\* empty or the name of a team of the roster, never a placeholder string,
\* and no side of a Final or Third Place match holds the placeholder of a
\* Quarterfinal, i.e. a placeholder that was moved into it as if it were a
\* team.
C21_NoPlaceholderWinner ==
    \A i \in 1..Len(playoffs) :
        /\ playoffs[i].Vincitore \in {""} \cup Names(teams)
        /\ playoffs[i].Vincitore \notin PlaceholderStrings
        /\ playoffs[i].Fase \in {"Finals", "Third Place"} =>
              \A s \in {playoffs[i].Squadra1, playoffs[i].Squadra2} :
                  s \notin {Placeholder("QF", k, w) :
                              k \in 1..4, w \in {"Winner", "Loser"}}

(***************************************************************************)
(* Round-order play: from the state of the bracket study one bracket is    *)
(* generated, and every later call of update_playoff_results carries the   *)
(* table last emitted with a decisive score typed into every match of the  *)
(* earliest round that still has an unscored match (the Final and the      *)
(* Third Place match form one round).  Results keep being entered while a  *)
(* round is open: weak fairness of the entry.                              *)
(***************************************************************************)
DecisiveScores == {<<3, 1>>, <<1, 3>>}

Unscored(po, fases) ==
    {i \in 1..Len(po) :
        po[i].Fase \in fases /\ (isna(po[i].Set1) \/ isna(po[i].Set2))}

\* the rows of the round to play next
RoundRows(po) ==
    IF Unscored(po, {"Quarterfinals"}) # {}
    THEN {i \in 1..Len(po) : po[i].Fase = "Quarterfinals"}
    ELSE IF Unscored(po, {"Semifinals"}) # {}
    THEN {i \in 1..Len(po) : po[i].Fase = "Semifinals"}
    ELSE IF Unscored(po, {"Finals", "Third Place"}) # {}
    THEN {i \in 1..Len(po) : po[i].Fase \in {"Finals", "Third Place"}}
    ELSE {}

\* the tables with a decisive score in every row of the round
RoundTables(po) ==
    {[i \in 1..Len(po) |->
        IF i \in RoundRows(po)
        THEN [po[i] EXCEPT !.Set1 = f[i][1], !.Set2 = f[i][2]]
        ELSE po[i]] : f \in [RoundRows(po) -> DecisiveScores]}

update_playoff_results_round ==
    /\ RoundRows(playoffs) # {}
    /\ \E updated_df \in RoundTables(playoffs), live \in BOOLEAN :
          playoffs' = update_playoff_results_op(updated_df, live)
    /\ op' = "update_playoff_results"
    /\ arg' = <<>>
    /\ updates' = updates + 1
    /\ UNCHANGED <<teams, groups, matches, matches_keys, final_standings>>

NextRounds ==
    \/ op = "init" /\ generate_playoffs
    \/ update_playoff_results_round

SpecRounds ==
    InitBracket /\ [][NextRounds]_vars /\ WF_vars(update_playoff_results_round)

(***************************************************************************)
(* C22: bracket progression under round-order play                         *)
(***************************************************************************)
SidesOf(rows) == {rows[i].Squadra1 : i \in 1..Len(rows)}
                 \cup {rows[i].Squadra2 : i \in 1..Len(rows)}

\* no side is a placeholder, the Final holds the Semifinal winners, the Third
\* Place match the Semifinal losers, the four are distinct, and
\* check_playoffs_complete is true
RoundsResolved ==
    LET sf == RowsOfPhase("Semifinals")
        fin == RowsOfPhase("Finals")
        third == RowsOfPhase("Third Place")
    IN  /\ check_playoffs_complete(playoffs)
        /\ SidesOf(playoffs) \subseteq Names(teams)
        /\ Len(fin) = 1
        /\ fin[1].Squadra1 # fin[1].Squadra2
        /\ sf # <<>> =>
              /\ Len(sf) = 2 /\ Len(third) = 1
              /\ \A i \in 1..2 : Decisive(sf[i])
              /\ <<fin[1].Squadra1, fin[1].Squadra2>>
                    = <<WinningSide(sf[1]), WinningSide(sf[2])>>
              /\ <<third[1].Squadra1, third[1].Squadra2>>
                    = <<LosingSide(sf[1]), LosingSide(sf[2])>>
              /\ Cardinality(SidesOf(fin) \cup SidesOf(third)) = 4

\* C22 as stated: from any bracket produced by generate_playoffs, round-order
\* play eventually resolves every placeholder, fills the Final with the
\* Semifinal winners and the Third Place match with the Semifinal losers, all
\* four distinct, and makes check_playoffs_complete true.
C22_RoundOrderCompletes ==
    (op = "generate_playoffs") ~> RoundsResolved

\* C22, amended: the same from any bracket that holds at least one match
\* (two or more qualified teams); the bracket of fewer than two qualified
\* teams is empty and check_playoffs_complete stays false.
C22_RoundOrderCompletesNonEmpty ==
    (op = "generate_playoffs" /\ playoffs # <<>>) ~> RoundsResolved

\* a bracket of eight rows played in three calls and resolved
C22_Witness ==
    /\ op = "update_playoff_results"
    /\ updates = 3
    /\ Len(playoffs) = 8
    /\ RoundsResolved

(***************************************************************************)
(* Label study: the state after n teams were registered; from there the    *)
(* group operations, with update_match_results called for a label that is  *)
(* not a group.                                                            *)
(***************************************************************************)
Labels == {GroupNames[i] : i \in 1..(MaxGroups + 1)}

\* the tables handed over with a label that is not a group: an empty table,
\* the unscored match of the first two teams of the roster, or an edited copy
\* of a stored table
LabelTables(scores) ==
    {<<>>}
    \cup (IF Len(teams) >= 2 THEN {<<NewMatch(teams[1], teams[2])>>} ELSE {})
    \cup UNION {EditedTables(matches[g], scores) : g \in DOMAIN matches}

\* self.matches[group] = updated_df.copy() stores the table under any label
update_match_results_label(scores) ==
    /\ updates < MaxEdits
    /\ \E group \in Labels \ DOMAIN groups :
        \E updated_df \in LabelTables(scores) :
            /\ matches' = [g \in DOMAIN matches \cup {group} |->
                             IF g = group THEN update_match_results_op(updated_df)
                             ELSE matches[g]]
            /\ matches_keys' = IF group \in DOMAIN matches THEN matches_keys
                               ELSE Append(matches_keys, group)
            /\ op' = "update_match_results"
            /\ arg' = <<group>>
            /\ updates' = updates + 1
            /\ UNCHANGED <<teams, groups, playoffs, final_standings>>

NextLabels ==
    \/ create_groups(Shuffles(teams), AllSizes)
    \/ generate_matches
    \/ update_match_results_label({<<NA, NA>>, <<3, 1>>})

SpecLabels == InitGroup /\ [][NextLabels]_vars

\* C23: in every reachable state calculate_group_standings returns the empty
\* table, and does not fail, for every label that is not a current group:
\* before any group exists, after create_groups and before generate_matches,
\* and after update_match_results was called with such a label.
C23_UnknownGroupEmpty ==
    \A g \in Labels \ DOMAIN groups :
        /\ ~ calculate_group_standings_KeyError(matches, groups, g)
        /\ calculate_group_standings(matches, groups, g) = <<>>

(***************************************************************************)
(* C24: the pairings of a generated bracket                                *)
(***************************************************************************)
\* the slots <<row, side>> of the bracket that hold the name t
SlotsOf(t) ==
    {<<i, 1>> : i \in {j \in 1..Len(playoffs) : playoffs[j].Squadra1 = t}}
    \cup {<<i, 2>> : i \in {j \in 1..Len(playoffs) : playoffs[j].Squadra2 = t}}

\* the rows between teams: the initial round
InitialRound ==
    {i \in 1..Len(playoffs) :
        {playoffs[i].Squadra1, playoffs[i].Squadra2} \subseteq Names(teams)}

\* C24: in every bracket produced by generate_playoffs no match pairs a team
\* with itself, every team is a side of at most one match, the teams of the
\* bracket are qualified teams, two for each initial-round match, and the
\* qualified teams between the paired ends of the list (the third of five,
\* the fifth of nine) are a side of no match.
C24_PairingsDisjoint ==
    op = "generate_playoffs" =>
        LET q == qualified_teams(matches, groups, arg[1])
            rounds == Cardinality(InitialRound)
            placed == {t \in Names(teams) : SlotsOf(t) # {}}
        IN  /\ \A i \in 1..Len(playoffs) :
                  playoffs[i].Squadra1 # playoffs[i].Squadra2
            /\ \A t \in Names(teams) : Cardinality(SlotsOf(t)) <= 1
            /\ placed \subseteq Names(q)
            /\ Cardinality(placed) = 2 * rounds
            /\ Len(q) >= 4 =>
                  \A k \in (rounds + 1)..(Len(q) - rounds) : q[k] \notin placed
            /\ Len(q) \in {2, 3} =>
                  \A k \in 3..Len(q) : q[k] \notin placed

\* five teams qualified: two Semifinals between the ends of the list, the
\* third team in no match
C24_Witness ==
    /\ op = "generate_playoffs"
    /\ Len(qualified_teams(matches, groups, arg[1])) = 5
    /\ Cardinality(InitialRound) = 2
    /\ SlotsOf(qualified_teams(matches, groups, arg[1])[3]) = {}
    /\ SlotsOf(qualified_teams(matches, groups, arg[1])[1]) # {}
====
